---- MODULE Spec2Model ----
(***************************************************************************)
(* Model of english-teacher-bot: the credit ledger                         *)
(* (app/services/balance_service.py), the database session per update      *)
(* (app/middleware.py) and the AI request pipeline (app/handlers.py,       *)
(* app/services/openai_service.py).                                        *)
(***************************************************************************)
EXTENDS Integers, Sequences, FiniteSets, TLC

(***************************************************************************)
(* Bounds of the model.                                                    *)
(***************************************************************************)
MaxCalls == 4
MaxAmount == 2
MaxSessions == 2
MaxSessionOps == 2
MaxRequests == 2
MaxTurns == 3
MaxLimit == 2
MaxUsers == 2
MaxCommands == 3
MaxTextLen == 4
MaxChars == 2
MaxKeys == 2

(***************************************************************************)
(* Program constants.                                                      *)
(***************************************************************************)
WelcomeBonus == 100
NewUserBalance == 0
max_tokens_per_request == 4000
ai_max_response_tokens == 1200
SafetyBuffer == 100
MinResponseTokens == 50
ai_context_messages == 4
RolePromptContent == 100
MetaInstructionsContent == 101

VARIABLES
    balance,    \* User.balance of the account, as the session's User object holds it
    txs,        \* Transaction rows of the account, oldest first
    last,       \* the last ledger call: its name, arguments, result and the state before it
    nCalls,     \* number of ledger calls made so far
    nEnsure,    \* number of those that were ensure_initial_bonus
    dbBalance,  \* users.balance as committed in the database
    dbTxs,      \* committed Transaction rows of the account, oldest first
    sess,       \* per update: its AsyncSession (the User it loaded, its pending rows)
    cfg,        \* settings: API key set, default role prompt blank, agent mode
    userExists, \* the users row of the sender exists
    req,        \* the text update being handled by process_ai_message
    turns,      \* committed Conversation rows of the account, oldest first
    corrections,\* number of committed CorrectionHistory rows of the account
    nReq,       \* number of updates handled so far
    accounts,   \* per Telegram id: the users row, its balance and its Transaction rows
    admin_ids,  \* settings.admin_ids
    cmd,        \* the last /start or /add command handled, with the accounts before it
    tok,        \* the tokenizer library, and the last two count_tokens calls
    lang,       \* a text and the last language detection made on it
    store       \* the Redis key session:<telegram_id> and the update_session calls on it

ledgerVars == <<balance, txs, last, nCalls, nEnsure>>
dbVars == <<dbBalance, dbTxs, sess>>
auxVars == <<lang, store>>
cmdVars == <<accounts, admin_ids, cmd, tok, auxVars>>
reqVars == <<cfg, userExists, req, turns, corrections, nReq, cmdVars>>
vars == <<balance, txs, last, nCalls, nEnsure, dbBalance, dbTxs, sess,
          cfg, userExists, req, turns, corrections, nReq,
          accounts, admin_ids, cmd, tok, lang, store>>

Reasons == {"admin_credit", "correction_debit"}
Amounts == (-1 .. MaxAmount) \cup {WelcomeBonus, WelcomeBonus + 1}

Transaction(amount, reason) == [amount |-> amount, reason |-> reason]

RECURSIVE SumAmounts(_)
SumAmounts(rows) ==
    IF rows = <<>> THEN 0 ELSE rows[1].amount + SumAmounts(Tail(rows))

CountReason(rows, reason) ==
    Cardinality({i \in 1 .. Len(rows) : rows[i].reason = reason})

(***************************************************************************)
(* balance_service.py as functions of the account u = [balance, txs]:      *)
(* each returns the account after the call and what the call returned or   *)
(* raised.                                                                 *)
(***************************************************************************)
\* The bonus granted unless a welcome_bonus row exists, whatever else does.
ensure_initial_bonus_by_reason(u) ==
    IF \A i \in 1 .. Len(u.txs) : u.txs[i].reason # "welcome_bonus"
    THEN [u |-> [balance |-> WelcomeBonus,
                 txs |-> Append(u.txs, Transaction(WelcomeBonus, "welcome_bonus"))],
          ret |-> "None"]
    ELSE [u |-> u, ret |-> "None"]

\* The bonus granted without looking for earlier transactions.
ensure_initial_bonus_unchecked(u) ==
    [u |-> [balance |-> WelcomeBonus,
            txs |-> Append(u.txs, Transaction(WelcomeBonus, "welcome_bonus"))],
     ret |-> "None"]

ensure_initial_bonus(u) ==
    IF u.txs = <<>>
    THEN [u |-> [balance |-> WelcomeBonus,
                 txs |-> Append(u.txs, Transaction(WelcomeBonus, "welcome_bonus"))],
          ret |-> "None"]
    ELSE [u |-> u, ret |-> "None"]

\* A credit that overwrites the account's row instead of inserting one.
credit_replacing_rows(u, amount, reason) ==
    IF amount <= 0
    THEN [u |-> u, ret |-> "ValueError"]
    ELSE [u |-> [balance |-> u.balance + amount,
                 txs |-> IF u.txs = <<>> THEN <<Transaction(amount, reason)>>
                         ELSE [u.txs EXCEPT ![Len(u.txs)] =
                                  Transaction(@.amount + amount, reason)]],
          ret |-> "None"]

\* A credit that records the transaction and leaves the balance as it was.
credit_row_only(u, amount, reason) ==
    IF amount <= 0
    THEN [u |-> u, ret |-> "ValueError"]
    ELSE [u |-> [balance |-> u.balance,
                 txs |-> Append(u.txs, Transaction(amount, reason))],
          ret |-> "None"]

\* A credit that changes the balance and records no transaction.
credit_without_row(u, amount, reason) ==
    IF amount <= 0
    THEN [u |-> u, ret |-> "ValueError"]
    ELSE [u |-> [balance |-> u.balance + amount, txs |-> u.txs], ret |-> "None"]

credit(u, amount, reason) ==
    IF amount <= 0
    THEN [u |-> u, ret |-> "ValueError"]
    ELSE [u |-> [balance |-> u.balance + amount,
                 txs |-> Append(u.txs, Transaction(amount, reason))],
          ret |-> "None"]

\* A debit whose row carries the amount unsigned.
debit_positive_row(u, amount, reason) ==
    IF amount <= 0
    THEN [u |-> u, ret |-> "ValueError"]
    ELSE IF u.balance < amount
    THEN [u |-> u, ret |-> "False"]
    ELSE [u |-> [balance |-> u.balance - amount,
                 txs |-> Append(u.txs, Transaction(amount, reason))],
          ret |-> "True"]

\* A debit without the test of the amount's sign.
debit_unvalidated(u, amount, reason) ==
    IF u.balance < amount
    THEN [u |-> u, ret |-> "False"]
    ELSE [u |-> [balance |-> u.balance - amount,
                 txs |-> Append(u.txs, Transaction(0 - amount, reason))],
          ret |-> "True"]

\* A debit without the insufficient-funds test.
debit_overdraw(u, amount, reason) ==
    IF amount <= 0
    THEN [u |-> u, ret |-> "ValueError"]
    ELSE [u |-> [balance |-> u.balance - amount,
                 txs |-> Append(u.txs, Transaction(0 - amount, reason))],
          ret |-> "True"]

debit(u, amount, reason) ==
    IF amount <= 0
    THEN [u |-> u, ret |-> "ValueError"]
    ELSE IF u.balance < amount
    THEN [u |-> u, ret |-> "False"]
    ELSE [u |-> [balance |-> u.balance - amount,
                 txs |-> Append(u.txs, Transaction(0 - amount, reason))],
          ret |-> "True"]

Account == [balance |-> balance, txs |-> txs]

NoCall == [op |-> "none", amount |-> 0, reason |-> "", ret |-> "None",
           pre |-> [balance |-> NewUserBalance, txs |-> <<>>]]

(***************************************************************************)
(* The ledger used by one caller in one session, one call after another.   *)
(***************************************************************************)
LedgerIdle ==
    /\ balance = NewUserBalance
    /\ txs = <<>>
    /\ last = NoCall
    /\ nCalls = 0
    /\ nEnsure = 0

Sessions == 1 .. MaxSessions

NoSession == [pc |-> "idle", loaded |-> 0, balance |-> 0, pending |-> <<>>,
              ops |-> 0, rets |-> <<>>]

DbIdle ==
    /\ dbBalance = NewUserBalance
    /\ dbTxs = <<>>
    /\ sess = [s \in Sessions |-> NoSession]

NoRequest ==
    [pc |-> "idle", text |-> "none", tokens |-> 0, budget |-> 0, calls |-> <<>>,
     context |-> <<>>, first_tool_calls |-> FALSE, fault |-> "none",
     ai_response |-> "none", total_tokens |-> 0,
     first_usage |-> 0, final_usage |-> 0, response_tokens |-> 0,
     error |-> "none", stage |-> "none", reply |-> "none",
     preBalance |-> 0, preTxs |-> <<>>, preTurns |-> 0, preCorrections |-> 0,
     preUserExists |-> FALSE]

UserIds == 1 .. MaxUsers

NoAccount == [exists |-> FALSE, balance |-> NewUserBalance, txs |-> <<>>]

NoCommand ==
    [op |-> "none", caller |-> 0, target |-> 0, amount |-> 0, reply |-> "none",
     pre |-> [u \in UserIds |-> NoAccount], n |-> 0]

TextLens == 0 .. MaxTextLen

NoCount == [called |-> FALSE, len |-> 0, known |-> TRUE, raised |-> FALSE,
            value |-> 0]

CmdIdle ==
    /\ accounts = [u \in UserIds |-> NoAccount]
    /\ admin_ids = {}
    /\ cmd = NoCommand

NoDetection == [text |-> <<>>, by |-> "none", result |-> "none", prev |-> "uncalled"]

Updaters == 1 .. 2

NoUpdate == [pc |-> "idle", updates |-> {}, session |-> {}]

StoreIdle ==
    store = [data |-> {}, present |-> FALSE, expired |-> FALSE,
             upd |-> [p \in Updaters |-> NoUpdate]]

AuxIdle == lang = NoDetection /\ StoreIdle

TokIdle ==
    tok = [encoded_len |-> [n \in TextLens |-> n], model_fails |-> FALSE,
           base_fails |-> FALSE, prev |-> NoCount, cur |-> NoCount]

ReqIdle ==
    /\ cfg = [api_key |-> TRUE, role_blank |-> FALSE, agent_mode |-> TRUE,
              context_messages |-> ai_context_messages]
    /\ userExists = FALSE
    /\ req = NoRequest
    /\ turns = <<>>
    /\ corrections = 0
    /\ nReq = 0

InitLedger == LedgerIdle /\ DbIdle /\ ReqIdle /\ CmdIdle /\ TokIdle /\ AuxIdle

Ledger(op, amount, reason, r) ==
    /\ nCalls < MaxCalls
    /\ balance' = r.u.balance
    /\ txs' = r.u.txs
    /\ last' = [op |-> op, amount |-> amount, reason |-> reason, ret |-> r.ret,
                pre |-> Account]
    /\ nCalls' = nCalls + 1
    /\ UNCHANGED dbVars
    /\ UNCHANGED reqVars

CallEnsureInitialBonus ==
    /\ Ledger("ensure_initial_bonus", 0, "", ensure_initial_bonus(Account))
    /\ nEnsure' = nEnsure + 1

CallCredit ==
    \E amount \in Amounts, reason \in Reasons :
        /\ Ledger("credit", amount, reason, credit(Account, amount, reason))
        /\ UNCHANGED nEnsure

CallDebit ==
    \E amount \in Amounts, reason \in Reasons :
        /\ Ledger("debit", amount, reason, debit(Account, amount, reason))
        /\ UNCHANGED nEnsure

NextLedger == CallEnsureInitialBonus \/ CallCredit \/ CallDebit

SpecLedger == InitLedger /\ [][NextLedger]_vars

(***************************************************************************)
(* Concurrent updates of one account.  DataLayerMiddleware opens one       *)
(* AsyncSession per update and commits it when the handler returns; the    *)
(* handler selects the User row (no FOR UPDATE, no version column), the    *)
(* ledger functions change the loaded object, and the flush writes the     *)
(* object's balance as an absolute value together with the pending rows.   *)
(***************************************************************************)
CommittedAccounts ==
    { ensure_initial_bonus([balance |-> NewUserBalance, txs |-> <<>>]).u,
      debit(ensure_initial_bonus([balance |-> NewUserBalance, txs |-> <<>>]).u,
            WelcomeBonus - 1, "correction_debit").u }

InitConc ==
    /\ LedgerIdle
    /\ \E a \in CommittedAccounts : dbBalance = a.balance /\ dbTxs = a.txs
    /\ sess = [s \in Sessions |-> NoSession]
    /\ ReqIdle
    /\ CmdIdle
    /\ TokIdle
    /\ AuxIdle

\* select(User).where(User.telegram_id == ...) in the update's own session
LoadUser(s) ==
    /\ sess[s].pc = "idle"
    /\ sess' = [sess EXCEPT ![s] = [@ EXCEPT !.pc = "loaded",
                                             !.loaded = dbBalance,
                                             !.balance = dbBalance]]
    /\ UNCHANGED <<dbBalance, dbTxs>>
    /\ UNCHANGED ledgerVars
    /\ UNCHANGED reqVars

SessionApply(s, r) ==
    /\ sess[s].pc = "loaded"
    /\ sess[s].ops < MaxSessionOps
    /\ sess' = [sess EXCEPT ![s] = [@ EXCEPT !.balance = r.u.balance,
                                             !.pending = r.u.txs,
                                             !.ops = @ + 1,
                                             !.rets = Append(@, r.ret)]]
    /\ UNCHANGED <<dbBalance, dbTxs>>
    /\ UNCHANGED ledgerVars
    /\ UNCHANGED reqVars

SessionUser(s) == [balance |-> sess[s].balance, txs |-> sess[s].pending]

SessionDebit(s) == SessionApply(s, debit(SessionUser(s), 1, "correction_debit"))

SessionCredit(s) == SessionApply(s, credit(SessionUser(s), 1, "admin_credit"))

\* A commit that makes the balance visible and loses the pending rows.
SessionCommit_torn(s) ==
    /\ sess[s].pc = "loaded"
    /\ dbBalance' = IF sess[s].balance # sess[s].loaded THEN sess[s].balance
                    ELSE dbBalance
    /\ dbTxs' = dbTxs
    /\ sess' = [sess EXCEPT ![s] = [@ EXCEPT !.pc = "committed"]]
    /\ UNCHANGED ledgerVars
    /\ UNCHANGED reqVars

\* await session.commit(): UPDATE users SET balance = <value of the object>
\* when the attribute changed, INSERT of the pending Transaction rows, COMMIT
SessionCommit(s) ==
    /\ sess[s].pc = "loaded"
    /\ dbBalance' = IF sess[s].balance # sess[s].loaded THEN sess[s].balance
                    ELSE dbBalance
    /\ dbTxs' = dbTxs \o sess[s].pending
    /\ sess' = [sess EXCEPT ![s] = [@ EXCEPT !.pc = "committed"]]
    /\ UNCHANGED ledgerVars
    /\ UNCHANGED reqVars

\* the handler raised: await session.rollback()
SessionRollback(s) ==
    /\ sess[s].pc = "loaded"
    /\ sess' = [sess EXCEPT ![s] = [@ EXCEPT !.pc = "rolledback"]]
    /\ UNCHANGED <<dbBalance, dbTxs>>
    /\ UNCHANGED ledgerVars
    /\ UNCHANGED reqVars

NextConc ==
    \E s \in Sessions :
        \/ LoadUser(s)
        \/ SessionDebit(s)
        \/ SessionCredit(s)
        \/ SessionCommit(s)
        \/ SessionRollback(s)

SpecConc == InitConc /\ [][NextConc]_vars

(***************************************************************************)
(* The commands that create and credit accounts: /start (handlers.py) and  *)
(* the administrative /add, over the accounts of several Telegram ids.     *)
(***************************************************************************)
CommandAmounts == -1 .. MaxAmount

\* start_handler for a sender with from_user set: the users row is updated
\* or created, and the session committed
start_handler(accts, u) ==
    IF accts[u].exists THEN accts
    ELSE [accts EXCEPT ![u] = [NoAccount EXCEPT !.exists = TRUE]]

\* The /add command without the test of the caller against admin_ids.
admin_add_handler_ungated(accts, allowed, caller, target, amount) ==
    IF amount <= 0
    THEN [accounts |-> accts, reply |-> "invalid"]
    ELSE LET u0 == accts[target]
             u1 == IF u0.exists THEN [balance |-> u0.balance, txs |-> u0.txs]
                   ELSE ensure_initial_bonus(
                            [balance |-> NewUserBalance, txs |-> <<>>]).u
             u2 == credit(u1, amount, "admin_credit").u
         IN  [accounts |-> [accts EXCEPT ![target] =
                               [exists |-> TRUE, balance |-> u2.balance,
                                txs |-> u2.txs]],
              reply |-> "credited"]

\* the /add <telegram_id> <amount> command: refused for a caller outside
\* settings.admin_ids; a target without a users row is created and given
\* the welcome bonus; then the amount is credited as admin_credit
admin_add_handler(accts, allowed, caller, target, amount) ==
    IF caller \notin allowed
    THEN [accounts |-> accts, reply |-> "denied"]
    ELSE IF amount <= 0
    THEN [accounts |-> accts, reply |-> "invalid"]
    ELSE LET u0 == accts[target]
             u1 == IF u0.exists THEN [balance |-> u0.balance, txs |-> u0.txs]
                   ELSE ensure_initial_bonus(
                            [balance |-> NewUserBalance, txs |-> <<>>]).u
             u2 == credit(u1, amount, "admin_credit").u
         IN  [accounts |-> [accts EXCEPT ![target] =
                               [exists |-> TRUE, balance |-> u2.balance,
                                txs |-> u2.txs]],
              reply |-> "credited"]

InitCommands ==
    /\ LedgerIdle
    /\ DbIdle
    /\ ReqIdle
    /\ accounts = [u \in UserIds |-> NoAccount]
    /\ admin_ids \in SUBSET UserIds
    /\ cmd = NoCommand
    /\ TokIdle
    /\ AuxIdle

CommandFrame == UNCHANGED <<ledgerVars, dbVars, cfg, userExists, req, turns,
                            corrections, nReq, admin_ids, tok, auxVars>>

\* /start from the Telegram user u, or from no user (u = 0)
StartCommand ==
    /\ cmd.n < MaxCommands
    /\ \E u \in UserIds \cup {0} :
          /\ accounts' = IF u = 0 THEN accounts ELSE start_handler(accounts, u)
          /\ cmd' = [op |-> "start", caller |-> u, target |-> u, amount |-> 0,
                     reply |-> IF u = 0 THEN "greeting_unknown" ELSE "greeting",
                     pre |-> accounts, n |-> cmd.n + 1]
    /\ CommandFrame

\* /add target amount from the Telegram user caller
AdminAddCommand ==
    /\ cmd.n < MaxCommands
    /\ \E caller \in UserIds, target \in UserIds, amount \in CommandAmounts :
          LET r == admin_add_handler(accounts, admin_ids, caller, target, amount)
          IN  /\ accounts' = r.accounts
              /\ cmd' = [op |-> "add", caller |-> caller, target |-> target,
                         amount |-> amount, reply |-> r.reply,
                         pre |-> accounts, n |-> cmd.n + 1]
    /\ CommandFrame

NextCommands == StartCommand \/ AdminAddCommand

SpecCommands == InitCommands /\ [][NextCommands]_vars

(***************************************************************************)
(* count_tokens against a tokenizer library: encoded_len[n] is the number  *)
(* of tokens the encoding yields for the text of n ASCII characters that   *)
(* is counted (none for the empty text, otherwise at least one and at most *)
(* one per character); model_fails and base_fails say whether loading or   *)
(* applying the model's own encoding, or cl100k_base after a KeyError,     *)
(* raises.                                                                 *)
(***************************************************************************)
Tokenizers ==
    { f \in [TextLens -> TextLens] :
        /\ f[0] = 0
        /\ \A n \in TextLens : n >= 1 => (f[n] >= 1 /\ f[n] <= n) }

\* count_tokens with the length estimate for a model tiktoken does not know.
count_tokens_estimate_unknown(t, len, known) ==
    IF known /\ ~t.model_fails
    THEN [raised |-> FALSE, value |-> t.encoded_len[len]]
    ELSE [raised |-> FALSE, value |-> len \div 4]

\* try encoding_for_model(model).encode; except KeyError: cl100k_base;
\* except Exception: len(text) // 4
count_tokens(t, len, known) ==
    IF known
    THEN IF t.model_fails
         THEN [raised |-> FALSE, value |-> len \div 4]
         ELSE [raised |-> FALSE, value |-> t.encoded_len[len]]
    ELSE IF t.base_fails
         THEN [raised |-> TRUE, value |-> 0]
         ELSE [raised |-> FALSE, value |-> t.encoded_len[len]]

InitTokens ==
    /\ LedgerIdle
    /\ DbIdle
    /\ ReqIdle
    /\ CmdIdle
    /\ AuxIdle
    /\ tok \in [encoded_len : Tokenizers, model_fails : BOOLEAN,
                 base_fails : BOOLEAN, prev : {NoCount}, cur : {NoCount}]

CountTokens ==
    /\ \E len \in TextLens, known \in BOOLEAN :
          LET r == count_tokens(tok, len, known)
          IN  tok' = [tok EXCEPT
                        !.prev = tok.cur,
                        !.cur = [called |-> TRUE, len |-> len, known |-> known,
                                 raised |-> r.raised, value |-> r.value]]
    /\ UNCHANGED <<ledgerVars, dbVars, cfg, userExists, req, turns,
                   corrections, nReq, accounts, admin_ids, cmd, auxVars>>

NextTokens == CountTokens

SpecTokens == InitTokens /\ [][NextTokens]_vars

(***************************************************************************)
(* The AI request pipeline: process_ai_message (handlers.py) and           *)
(* OpenAIService.generate_response (openai_service.py), one text update    *)
(* at a time.                                                              *)
(***************************************************************************)
Min(a, b) == IF a < b THEN a ELSE b

\* count_tokens of the flattened input: values on both sides of every
\* threshold of the budget computation
TokenSamples ==
    {1} \cup
    { t + d : t \in { max_tokens_per_request - SafetyBuffer - ai_max_response_tokens,
                      max_tokens_per_request - SafetyBuffer - MinResponseTokens,
                      max_tokens_per_request },
              d \in -1 .. 1 }

\* count_tokens of the response text, used when the response has no usage
ResponseTokenSamples == {1, 7}

TextKinds == {"anonymous", "predefined", "blank", "plain"}

ProviderFaults ==
    {"RateLimitError", "AuthenticationError", "PermissionDeniedError",
     "BadRequestError", "APITimeoutError", "InternalServerError", "RuntimeError"}

\* usage = 0 stands for a response without usage data
ProviderResponses ==
    [choices : BOOLEAN, content : {"text", ""}, tool_calls : BOOLEAN, usage : {0, 42}]

\* openai.RateLimitError and the other status and connection errors derive
\* from openai.APIError
IsAPIError(fault) == fault # "RuntimeError"

\* The except clauses with the APIError clause ahead of the RateLimitError one.
ClassifyFault_api_first(fault) ==
    IF IsAPIError(fault) THEN "ProviderUnavailable"
    ELSE IF fault = "RateLimitError" THEN "Overloaded"
    ELSE "Unexpected"

\* the except clauses of generate_response, in their order
ClassifyFault(fault) ==
    IF fault = "RateLimitError" THEN "Overloaded"
    ELSE IF IsAPIError(fault) THEN "ProviderUnavailable"
    ELSE "Unexpected"

\* The budget handed on without the test for a minimum of room.
Preflight_no_minimum(user_blank, role_blank, input_tokens, max_resp_tokens) ==
    IF user_blank THEN [error |-> "EmptyUserMessage", budget |-> 0]
    ELSE IF role_blank THEN [error |-> "EmptyRolePrompt", budget |-> 0]
    ELSE IF input_tokens > max_tokens_per_request
    THEN [error |-> "InputTooLong", budget |-> 0]
    ELSE [error |-> "none",
          budget |-> Min(max_tokens_per_request - input_tokens - SafetyBuffer,
                         max_resp_tokens)]

\* The argument checks without the comparison against max_tokens_per_request.
Preflight_no_limit(user_blank, role_blank, input_tokens, max_resp_tokens) ==
    IF user_blank THEN [error |-> "EmptyUserMessage", budget |-> 0]
    ELSE IF role_blank THEN [error |-> "EmptyRolePrompt", budget |-> 0]
    ELSE LET max_response_tokens_budget ==
                 Min(max_tokens_per_request - input_tokens - SafetyBuffer,
                     max_resp_tokens)
         IN  IF max_response_tokens_budget < MinResponseTokens
             THEN [error |-> "NoRoomForResponse", budget |-> 0]
             ELSE [error |-> "none", budget |-> max_response_tokens_budget]

\* The budget computed without the buffer kept for the tool round trip.
Preflight_no_buffer(user_blank, role_blank, input_tokens, max_resp_tokens) ==
    IF user_blank THEN [error |-> "EmptyUserMessage", budget |-> 0]
    ELSE IF role_blank THEN [error |-> "EmptyRolePrompt", budget |-> 0]
    ELSE IF input_tokens > max_tokens_per_request
    THEN [error |-> "InputTooLong", budget |-> 0]
    ELSE LET max_response_tokens_budget ==
                 Min(max_tokens_per_request - input_tokens, max_resp_tokens)
         IN  IF max_response_tokens_budget < MinResponseTokens
             THEN [error |-> "NoRoomForResponse", budget |-> 0]
             ELSE [error |-> "none", budget |-> max_response_tokens_budget]

\* generate_response up to the first provider call: the argument checks, the
\* hard input limit and the response budget
Preflight(user_blank, role_blank, input_tokens, max_resp_tokens) ==
    IF user_blank THEN [error |-> "EmptyUserMessage", budget |-> 0]
    ELSE IF role_blank THEN [error |-> "EmptyRolePrompt", budget |-> 0]
    ELSE IF input_tokens > max_tokens_per_request
    THEN [error |-> "InputTooLong", budget |-> 0]
    ELSE LET max_response_tokens_budget ==
                 Min(max_tokens_per_request - input_tokens - SafetyBuffer,
                     max_resp_tokens)
         IN  IF max_response_tokens_budget < MinResponseTokens
             THEN [error |-> "NoRoomForResponse", budget |-> 0]
             ELSE [error |-> "none", budget |-> max_response_tokens_budget]

\* get_conversation_history: the rows of the user ordered by created_at
\* descending, cut by LIMIT; rows holds them oldest first
get_conversation_history(rows, limit) ==
    [i \in 1 .. Min(limit, Len(rows)) |-> rows[Len(rows) + 1 - i]]

Reversed(seq) == [i \in 1 .. Len(seq) |-> seq[Len(seq) + 1 - i]]

\* The context built in the order the query returns the rows, newest first.
context_messages_unreversed(recent) ==
    [i \in 1 .. 2 * Len(recent) |->
        IF i % 2 = 1
        THEN [role |-> "user", content |-> recent[(i + 1) \div 2].user_message]
        ELSE [role |-> "assistant", content |-> recent[i \div 2].ai_response]]

\* for c in reversed(recent): append the user entry, then the assistant entry
context_messages(recent) ==
    LET old == Reversed(recent)
    IN  [i \in 1 .. 2 * Len(old) |->
            IF i % 2 = 1
            THEN [role |-> "user", content |-> old[(i + 1) \div 2].user_message]
            ELSE [role |-> "assistant", content |-> old[i \div 2].ai_response]]

\* The new user message placed ahead of the context.
messages_user_before_context(role_prompt, meta_instructions, context, user_message) ==
    <<[role |-> "system", content |-> role_prompt]>>
    \o (IF meta_instructions # 0
        THEN <<[role |-> "system", content |-> meta_instructions]>> ELSE <<>>)
    \o <<[role |-> "user", content |-> user_message]>>
    \o SelectSeq(context, LAMBDA m : m.role \in {"user", "assistant"})

\* the messages list of generate_response; meta_instructions = 0 stands for
\* None or a blank string
messages(role_prompt, meta_instructions, context, user_message) ==
    <<[role |-> "system", content |-> role_prompt]>>
    \o (IF meta_instructions # 0
        THEN <<[role |-> "system", content |-> meta_instructions]>> ELSE <<>>)
    \o SelectSeq(context, LAMBDA m : m.role \in {"user", "assistant"})
    \o <<[role |-> "user", content |-> user_message]>>

\* A Conversation row left with the column default of tokens_used.
Conversation_default_tokens(user_message, ai_response, tokens_used) ==
    [user_message |-> user_message, ai_response |-> ai_response,
     tokens_used |-> 0]

\* Conversation(user_message=text, ai_response=ai_response, tokens_used=tokens)
Conversation(user_message, ai_response, tokens_used) ==
    [user_message |-> user_message, ai_response |-> ai_response,
     tokens_used |-> tokens_used]

StartAccounts ==
    CommittedAccounts \cup
    { debit(ensure_initial_bonus([balance |-> NewUserBalance, txs |-> <<>>]).u,
            WelcomeBonus, "correction_debit").u }

InitReq ==
    /\ last = NoCall
    /\ nCalls = 0
    /\ nEnsure = 0
    /\ DbIdle
    /\ \/ /\ userExists = FALSE
          /\ balance = NewUserBalance
          /\ txs = <<>>
       \/ /\ userExists = TRUE
          /\ \E a \in StartAccounts : balance = a.balance /\ txs = a.txs
    /\ cfg \in [api_key : BOOLEAN, role_blank : BOOLEAN, agent_mode : BOOLEAN,
                context_messages : {ai_context_messages}]
    /\ req = NoRequest
    /\ turns = <<>>
    /\ corrections = 0
    /\ nReq = 0
    /\ CmdIdle
    /\ TokIdle
    /\ AuxIdle

ReqFrame == UNCHANGED <<ledgerVars, dbVars, cfg, nReq, cmdVars>>

\* the ValueError texts that carry internal detail: the token counts of the
\* input-too-long error and the missing API key of OpenAIService.__init__
DiagnosticErrors == {"InputTooLong", "MissingApiKey"}

\* No text taken for a predefined query.
check_predefined_response_never(text) == FALSE

\* check_predefined_response: the text holds one of the keywords
check_predefined_response(text) == text = "predefined"

\* The provider fault logged and the handler carrying on to persist.
ProviderFault_swallowed(q, fault) ==
    [q EXCEPT !.pc = "save_correction", !.fault = fault]

ProviderFault(q, fault) ==
    [q EXCEPT !.pc = "done", !.fault = fault, !.error = ClassifyFault(fault),
              !.stage = "provider", !.reply = ClassifyFault(fault)]

\* an exception reaches the except clauses of process_ai_message: a
\* ValueError is echoed to the user, anything else gets the generic reply
Raise(error, stage, is_value_error) ==
    [req EXCEPT !.pc = "done", !.error = error, !.stage = stage,
                !.reply = IF is_value_error THEN error ELSE "generic"]

\* process_ai_message up to the try block: the from_user test, the
\* predefined responses, and the get-or-create of the users row
Receive ==
    /\ req.pc = "idle"
    /\ nReq < MaxRequests
    /\ \E text \in TextKinds :
          LET r == [NoRequest EXCEPT !.text = text, !.preBalance = balance,
                                     !.preTxs = txs, !.preTurns = Len(turns),
                                     !.preCorrections = corrections,
                                     !.preUserExists = userExists]
          IN  \/ /\ text = "anonymous"
                 /\ req' = [r EXCEPT !.pc = "done", !.reply = "auth_required"]
                 /\ UNCHANGED userExists
              \/ /\ text # "anonymous"
                 /\ check_predefined_response(text)
                 /\ req' = [r EXCEPT !.pc = "done", !.reply = "predefined"]
                 /\ UNCHANGED userExists
              \/ /\ text # "anonymous"
                 /\ ~check_predefined_response(text)
                 /\ req' = [r EXCEPT !.pc = "prepare"]
                 /\ userExists' = TRUE
    /\ UNCHANGED <<turns, corrections>>
    /\ ReqFrame

\* send_chat_action, get_or_create_user_role, OpenAIService(), the context
Prepare ==
    /\ req.pc = "prepare"
    /\ \E fault \in {"none", "TelegramError"} :
          req' = IF fault # "none" THEN Raise(fault, "prepare", FALSE)
                 ELSE IF ~cfg.api_key THEN Raise("MissingApiKey", "config", TRUE)
                 ELSE [req EXCEPT !.pc = "generate",
                                  !.context = context_messages(
                                      get_conversation_history(
                                          turns, cfg.context_messages))]
    /\ UNCHANGED <<userExists, turns, corrections>>
    /\ ReqFrame

\* generate_response from its entry to the first provider call
Generate ==
    /\ req.pc = "generate"
    /\ \E input_tokens \in TokenSamples :
          LET r == Preflight(req.text = "blank", cfg.role_blank, input_tokens,
                             ai_max_response_tokens)
              q == [req EXCEPT !.tokens = input_tokens]
          IN  req' = IF r.error # "none"
                     THEN [q EXCEPT !.pc = "done", !.error = r.error,
                                    !.stage = "preflight", !.reply = r.error]
                     ELSE [q EXCEPT !.pc = "call1", !.budget = r.budget]
    /\ UNCHANGED <<userExists, turns, corrections>>
    /\ ReqFrame

\* what generate_response does with the final response: no choices and
\* empty content raise ValueError inside the try block, which the last
\* except clause turns into the unexpected-error ValueError
\* The total always estimated from the token counts, usage data ignored.
Finish_usage_ignored(q, resp, response_tokens) ==
    IF ~resp.choices \/ resp.content = ""
    THEN [q EXCEPT !.pc = "done", !.error = "Unexpected", !.stage = "empty",
                   !.reply = "Unexpected"]
    ELSE [q EXCEPT !.pc = "save_correction", !.ai_response = resp.content,
                   !.final_usage = resp.usage,
                   !.response_tokens = response_tokens,
                   !.total_tokens = q.tokens + response_tokens]

Finish(q, resp, response_tokens) ==
    IF ~resp.choices \/ resp.content = ""
    THEN [q EXCEPT !.pc = "done", !.error = "Unexpected", !.stage = "empty",
                   !.reply = "Unexpected"]
    ELSE [q EXCEPT !.pc = "save_correction", !.ai_response = resp.content,
                   !.final_usage = resp.usage,
                   !.response_tokens = response_tokens,
                   !.total_tokens = IF resp.usage # 0 THEN resp.usage
                                    ELSE q.tokens + response_tokens]

\* A tool round entered whenever the response carries tool calls.
ToolRound_ignoring_mode(tools, resp) == resp.tool_calls

\* if tools and getattr(msg, "tool_calls", None)
ToolRound(tools, resp) == tools /\ resp.tool_calls

\* The function declared whatever the mode.
Tools_always(tools_enabled) == {"detect_language"}

\* the tools list: the detect_language function when agent mode is on,
\* None (here the empty set) otherwise
Tools(tools_enabled) == IF tools_enabled THEN {"detect_language"} ELSE {}

\* the arguments of the first chat.completions.create call
FirstCallArguments ==
    [max_tokens |-> req.budget, tools |-> Tools(cfg.agent_mode),
     messages |-> messages(RolePromptContent, MetaInstructionsContent,
                           req.context, nReq + 1)]

\* messages_with_tools: the first list, the model's message, the tool results
SecondCallArguments ==
    [max_tokens |-> req.budget, tools |-> {},
     messages |-> req.calls[1].messages
                  \o <<[role |-> "assistant", content |-> 0],
                       [role |-> "tool", content |-> 0]>>]

\* the update's task is cancelled while it awaits the provider: the
\* CancelledError passes every except Exception clause, nothing is replied
\* and the session is closed without a commit
Cancel ==
    /\ req.pc \in {"call1", "call2"}
    /\ req' = [req EXCEPT !.pc = "cancelled", !.error = "CancelledError",
                          !.stage = "provider",
                          !.calls = Append(@, IF req.pc = "call1"
                                              THEN FirstCallArguments
                                              ELSE SecondCallArguments)]
    /\ UNCHANGED <<userExists, turns, corrections>>
    /\ ReqFrame

\* the first chat.completions.create call and the handling of its result:
\* response.choices[0] raises IndexError on a response without choices, and
\* json.loads raises on malformed tool arguments
FirstCall ==
    /\ req.pc = "call1"
    /\ LET q == [req EXCEPT !.calls = Append(@, FirstCallArguments)]
       IN  \/ \E fault \in ProviderFaults : req' = ProviderFault(q, fault)
           \/ \E resp \in ProviderResponses, response_tokens \in ResponseTokenSamples :
                 \/ /\ ~resp.choices
                    /\ req' = [q EXCEPT !.pc = "done", !.error = "Unexpected",
                                        !.stage = "empty", !.reply = "Unexpected"]
                 \/ /\ resp.choices /\ ToolRound(cfg.agent_mode, resp)
                    /\ \/ req' = [q EXCEPT !.pc = "call2",
                                           !.first_usage = resp.usage,
                                           !.first_tool_calls = resp.tool_calls]
                       \/ req' = [q EXCEPT !.pc = "done", !.error = "Unexpected",
                                           !.first_tool_calls = resp.tool_calls,
                                           !.stage = "tool", !.reply = "Unexpected"]
                 \/ /\ resp.choices /\ ~ToolRound(cfg.agent_mode, resp)
                    /\ req' = [Finish(q, resp, response_tokens) EXCEPT
                                  !.first_tool_calls = resp.tool_calls]
    /\ UNCHANGED <<userExists, turns, corrections>>
    /\ ReqFrame

\* the follow-up call with the tool results, issued without tools
SecondCall ==
    /\ req.pc = "call2"
    /\ LET q == [req EXCEPT !.calls = Append(@, SecondCallArguments)]
       IN  \/ \E fault \in ProviderFaults : req' = ProviderFault(q, fault)
           \/ \E resp \in ProviderResponses, response_tokens \in ResponseTokenSamples :
                 req' = Finish(q, resp, response_tokens)
    /\ UNCHANGED <<userExists, turns, corrections>>
    /\ ReqFrame

\* save_correction_history: add the row and commit
SaveCorrection ==
    /\ req.pc = "save_correction"
    /\ \/ /\ req' = [req EXCEPT !.pc = "save_conversation"]
          /\ corrections' = corrections + 1
       \/ /\ req' = Raise("SQLAlchemyError", "persist_correction", FALSE)
          /\ UNCHANGED corrections
    /\ UNCHANGED <<userExists, turns>>
    /\ ReqFrame

\* session.add(Conversation(...)); await session.commit()
SaveConversation ==
    /\ req.pc = "save_conversation"
    /\ \/ /\ req' = [req EXCEPT !.pc = "reply"]
          /\ turns' = Append(turns, Conversation(nReq + 1, nReq + 1,
                                                  req.total_tokens))
       \/ /\ req' = Raise("SQLAlchemyError", "persist", FALSE)
          /\ UNCHANGED turns
    /\ UNCHANGED <<userExists, corrections>>
    /\ ReqFrame

\* message.reply(ai_response)
Reply ==
    /\ req.pc = "reply"
    /\ req' = [req EXCEPT !.pc = "done", !.reply = "ai_response"]
    /\ UNCHANGED <<userExists, turns, corrections>>
    /\ ReqFrame

\* the handler returns to DataLayerMiddleware, which commits the session
Return ==
    /\ req.pc \in {"done", "cancelled"}
    /\ req' = NoRequest
    /\ nReq' = nReq + 1
    /\ UNCHANGED <<userExists, turns, corrections, cfg>>
    /\ UNCHANGED <<ledgerVars, dbVars, cmdVars>>

NextReq ==
    \/ Receive
    \/ Prepare
    \/ Generate
    \/ FirstCall
    \/ SecondCall
    \/ Cancel
    \/ SaveCorrection
    \/ SaveConversation
    \/ Reply
    \/ Return

SpecReq == InitReq /\ [][NextReq]_vars

(***************************************************************************)
(* The context assembly on its own: any history of Conversation rows and   *)
(* any setting of ai_context_messages.                                     *)
(***************************************************************************)
RECURSIVE SeqsUpTo(_, _)
SeqsUpTo(S, n) ==
    IF n = 0 THEN {<<>>}
    ELSE LET shorter == SeqsUpTo(S, n - 1)
         IN  shorter \cup {Append(q, x) : q \in shorter, x \in S}

ConversationRows ==
    [user_message : 1 .. 2, ai_response : 11 .. 12, tokens_used : {0}]

InitContext ==
    /\ LedgerIdle
    /\ DbIdle
    /\ cfg \in [api_key : {TRUE}, role_blank : {FALSE}, agent_mode : {TRUE},
                context_messages : 0 .. MaxLimit]
    /\ userExists = TRUE
    /\ req = NoRequest
    /\ turns \in SeqsUpTo(ConversationRows, MaxTurns)
    /\ corrections = 0
    /\ nReq = 0
    /\ CmdIdle
    /\ TokIdle
    /\ AuxIdle

\* handlers.py:208-219
BuildContext ==
    /\ req.pc = "idle"
    /\ req' = [req EXCEPT !.pc = "context",
                          !.context = context_messages(
                              get_conversation_history(turns, cfg.context_messages))]
    /\ UNCHANGED <<userExists, turns, corrections>>
    /\ ReqFrame

NextContext == BuildContext

SpecContext == InitContext /\ [][NextContext]_vars

(***************************************************************************)
(* Language detection: detect_language (handlers.py) and its copy          *)
(* _tool_detect_language (openai_service.py), over texts of characters     *)
(* that stand for the classes the checks tell apart:                       *)
(*   ya U+044F, zhong U+4E2D, alif U+0627, alpha U+03B1 (beyond U+00FF),   *)
(*   n_tilde, N_TILDE, e_acute, u_umlaut, a_umlaut, a_grave, eszett, a.    *)
(***************************************************************************)
Chars ==
    {"ya", "zhong", "alif", "alpha", "n_tilde", "N_TILDE", "e_acute",
     "u_umlaut", "a_umlaut", "a_grave", "eszett", "a"}

Cyrillic == {"ya"}
Chinese == {"zhong"}
Arabic == {"alif"}
\* the members of "ñáéíóúü¿¡", "àâäéèêëïîôöùûüÿç" and "äöüß" among Chars
SpanishChars == {"n_tilde", "e_acute", "u_umlaut"}
FrenchChars == {"a_grave", "a_umlaut", "e_acute", "u_umlaut"}
GermanChars == {"a_umlaut", "u_umlaut", "eszett"}
\* ord(char) < 256
Latin1 == Chars \ {"ya", "zhong", "alif", "alpha"}

\* str.lower, character by character
Lower(c) == IF c = "N_TILDE" THEN "n_tilde" ELSE c

AnyChar(text, S) == \E i \in 1 .. Len(text) : text[i] \in S
AnyLower(text, S) == \E i \in 1 .. Len(text) : Lower(text[i]) \in S
AllChars(text, S) == \A i \in 1 .. Len(text) : text[i] \in S

\* The French check made ahead of the Spanish one.
detect_language_french_first(text) ==
    IF AnyChar(text, Cyrillic) THEN "ru"
    ELSE IF AnyChar(text, Chinese) THEN "zh"
    ELSE IF AnyChar(text, Arabic) THEN "ar"
    ELSE IF AnyLower(text, FrenchChars) THEN "fr"
    ELSE IF AnyLower(text, SpanishChars) THEN "es"
    ELSE IF AnyLower(text, GermanChars) THEN "de"
    ELSE IF AllChars(text, Latin1) THEN "en"
    ELSE "none"

detect_language(text) ==
    IF AnyChar(text, Cyrillic) THEN "ru"
    ELSE IF AnyChar(text, Chinese) THEN "zh"
    ELSE IF AnyChar(text, Arabic) THEN "ar"
    ELSE IF AnyLower(text, SpanishChars) THEN "es"
    ELSE IF AnyLower(text, FrenchChars) THEN "fr"
    ELSE IF AnyLower(text, GermanChars) THEN "de"
    ELSE IF AllChars(text, Latin1) THEN "en"
    ELSE "none"

tool_detect_language(text) ==
    IF AnyChar(text, Cyrillic) THEN "ru"
    ELSE IF AnyChar(text, Chinese) THEN "zh"
    ELSE IF AnyChar(text, Arabic) THEN "ar"
    ELSE IF AnyLower(text, SpanishChars) THEN "es"
    ELSE IF AnyLower(text, FrenchChars) THEN "fr"
    ELSE IF AnyLower(text, GermanChars) THEN "de"
    ELSE IF AllChars(text, Latin1) THEN "en"
    ELSE "none"

InitLang ==
    /\ LedgerIdle
    /\ DbIdle
    /\ ReqIdle
    /\ CmdIdle
    /\ TokIdle
    /\ StoreIdle
    /\ \E text \in SeqsUpTo(Chars, MaxChars) :
          lang = [NoDetection EXCEPT !.text = text]

LangFrame == UNCHANGED <<ledgerVars, dbVars, cfg, userExists, req, turns,
                         corrections, nReq, accounts, admin_ids, cmd, tok, store>>

\* detect_language(text) in process_ai_message
DetectLanguage ==
    /\ lang' = [lang EXCEPT !.by = "handler",
                            !.result = detect_language(lang.text),
                            !.prev = IF lang.by = "none" THEN "uncalled"
                                     ELSE lang.result]
    /\ LangFrame

\* the detect_language tool call of generate_response
ToolDetectLanguage ==
    /\ lang' = [lang EXCEPT !.by = "tool",
                            !.result = tool_detect_language(lang.text),
                            !.prev = IF lang.by = "none" THEN "uncalled"
                                     ELSE lang.result]
    /\ LangFrame

NextLang == DetectLanguage \/ ToolDetectLanguage

SpecLang == InitLang /\ [][NextLang]_vars

(***************************************************************************)
(* Ledger properties (SpecLedger).                                         *)
(***************************************************************************)

\* C1: after every ensure_initial_bonus / credit / debit call, whether it
\* succeeded, returned False or raised, the account's balance equals the sum
\* of the amounts of its Transaction rows.
LedgerInvariant == balance = SumAmounts(txs)

\* A failed debit that follows at least two recorded transactions.
LedgerInvariantWitness ==
    /\ last.op = "debit"
    /\ last.ret = "False"
    /\ Len(txs) >= 2
    /\ nCalls >= 3

\* C2: the balance is never negative, and a debit of amount > 0 from a
\* balance below amount returns False and leaves balance and log as they were.
NoNegativeBalance ==
    /\ balance >= 0
    /\ (last.op = "debit" /\ last.amount > 0 /\ last.pre.balance < last.amount)
         => /\ last.ret = "False"
            /\ balance = last.pre.balance
            /\ txs = last.pre.txs

\* A debit of more than a positive balance has been requested.
NoNegativeBalanceWitness ==
    /\ last.op = "debit"
    /\ last.amount > 0
    /\ last.pre.balance > 0
    /\ last.pre.balance < last.amount

\* C7: two or more ensure_initial_bonus calls on a fresh account, with no
\* other ledger call in between, leave exactly one welcome_bonus transaction
\* of +100 and balance 100.
IdempotentBonus ==
    (nEnsure >= 2 /\ nCalls = nEnsure)
        => /\ balance = 100
           /\ txs = <<Transaction(100, "welcome_bonus")>>

\* ensure_initial_bonus has been called three times and nothing else.
IdempotentBonusWitness ==
    /\ nEnsure = 3
    /\ nCalls = nEnsure
    /\ last.op = "ensure_initial_bonus"

(***************************************************************************)
(* Concurrency properties (SpecConc).                                      *)
(***************************************************************************)

\* C6: under every interleaving of concurrent updates of one account, each
\* in its own session, no debit is lost: the committed balance is never
\* negative and equals the sum of the committed Transaction amounts.
NoLostDebit ==
    /\ dbBalance >= 0
    /\ dbBalance = SumAmounts(dbTxs)

(***************************************************************************)
(* Request properties (SpecReq).                                           *)
(***************************************************************************)
Refunded ==
    \E i \in Len(req.preTxs) + 1 .. Len(txs) :
        txs[i].amount = 1 /\ txs[i].reason = "refund"

Debited ==
    \E i \in Len(req.preTxs) + 1 .. Len(txs) : txs[i].amount = -1

\* C3: a request that ends with the response delivered has decreased the
\* balance by exactly 1 and appended exactly one transaction, of amount -1;
\* a request that fails in the budget check or the completion call leaves
\* the balance where it was.
RequestChargesOnce ==
    /\ (req.pc = "done" /\ req.reply = "ai_response" /\ req.preBalance >= 1)
         => /\ balance = req.preBalance - 1
            /\ Len(txs) = Len(req.preTxs) + 1
            /\ txs[Len(txs)].amount = -1
    /\ (req.pc = "done" /\ req.stage \in {"preflight", "provider", "empty", "tool"})
         => balance = req.preBalance

\* C4: a request of an account that had at least 1 credit, whose provider
\* call failed (the call is only made once the debit of 1 credit has
\* succeeded), terminates with the balance at its pre-debit value and a
\* refund transaction of +1 appended.
RefundOnProviderFailure ==
    (req.pc = "done" /\ req.stage = "provider" /\ req.preBalance >= 1)
        => /\ balance = req.preBalance
           /\ Refunded

\* C5: a text request for an account whose balance is 0 ends with the
\* insufficient-funds reply, balance 0, no new Transaction, no new
\* Conversation row and no provider call.
InsufficientFundsBlocks ==
    (req.pc = "done" /\ req.text \in {"blank", "plain"} /\ req.preBalance = 0)
        => /\ req.reply = "InsufficientFunds"
           /\ balance = 0
           /\ txs = req.preTxs
           /\ Len(turns) = req.preTurns
           /\ req.calls = <<>>

\* C8: a request of an account that had at least 1 credit, rejected by the
\* budget check (input too long, no room for the response), had debited the
\* account, has refunded the debit so that the balance is back at its
\* pre-debit value, and issued no provider call.
BudgetFailureRefunds ==
    (req.pc = "done" /\ req.error \in {"InputTooLong", "NoRoomForResponse"}
        /\ req.preBalance >= 1)
        => /\ Debited
           /\ Refunded
           /\ balance = req.preBalance
           /\ req.calls = <<>>

\* C9: when committing the Conversation row fails after a successful
\* completion for an account that had at least 1 credit, the user gets the
\* generic error reply, no refund is appended and the balance stays at its
\* pre-debit value minus 1.
PersistFailureKeepsCharge ==
    (req.pc = "done" /\ req.stage = "persist" /\ req.preBalance >= 1)
        => /\ req.reply = "generic"
           /\ ~Refunded
           /\ balance = req.preBalance - 1

\* C10 as stated: every message set of more than max_tokens_per_request
\* input tokens makes generate_response fail with the input-too-long error
\* without a provider call.
InputTooLongAlways ==
    (req.pc = "done" /\ req.tokens > max_tokens_per_request)
        => /\ req.error = "InputTooLong"
           /\ req.calls = <<>>

\* C10 amended: a message set of more than max_tokens_per_request input
\* tokens whose user message and role prompt are not blank makes
\* generate_response fail with the input-too-long error without a provider
\* call; with a blank user message or role prompt it fails with that
\* argument's own error, also without a provider call.
InputTooLongRejected ==
    (req.pc = "done" /\ req.tokens > max_tokens_per_request)
        => /\ req.calls = <<>>
           /\ req.error =
                 IF req.text = "blank" THEN "EmptyUserMessage"
                 ELSE IF cfg.role_blank THEN "EmptyRolePrompt"
                 ELSE "InputTooLong"

\* generate_response has rejected an over-long input of a non-blank message.
InputTooLongRejectedWitness ==
    /\ req.pc = "done"
    /\ req.tokens = max_tokens_per_request + 1
    /\ req.text = "plain"
    /\ ~cfg.role_blank
    /\ req.error = "InputTooLong"
    /\ req.reply = "InputTooLong"

ExpectedBudget ==
    Min(max_tokens_per_request - req.tokens - 100, ai_max_response_tokens)

GenerateEntered == req.tokens > 0 /\ req.pc # "generate"

\* C11 as stated: for input_tokens <= max_tokens_per_request every provider
\* call gets max_tokens = min(limit - input_tokens - 100, desired), and when
\* that value is below 50 generate_response fails with the no-room error
\* without a provider call.
OutputBudgetAlways ==
    (GenerateEntered /\ req.tokens <= max_tokens_per_request)
        => /\ \A i \in 1 .. Len(req.calls) : req.calls[i].max_tokens = ExpectedBudget
           /\ ExpectedBudget < 50
                => /\ req.error = "NoRoomForResponse"
                   /\ req.calls = <<>>

\* C11 amended: the same for a user message and role prompt that are not
\* blank; with a blank one generate_response fails with that argument's own
\* error, and in every case a budget below 50 means no provider call.
OutputBudget ==
    (GenerateEntered /\ req.tokens <= max_tokens_per_request)
        => /\ \A i \in 1 .. Len(req.calls) : req.calls[i].max_tokens = ExpectedBudget
           /\ ExpectedBudget < 50
                => /\ req.calls = <<>>
                   /\ req.error =
                         IF req.text = "blank" THEN "EmptyUserMessage"
                         ELSE IF cfg.role_blank THEN "EmptyRolePrompt"
                         ELSE "NoRoomForResponse"

\* A provider call was issued with the budget left by the input, below the
\* desired maximum.
OutputBudgetWitness ==
    /\ req.calls # <<>>
    /\ req.tokens = max_tokens_per_request - 100 - ai_max_response_tokens + 1
    /\ req.calls[1].max_tokens = ai_max_response_tokens - 1

\* C12: generate_response issues at most two provider calls; the second is
\* issued only when tools are enabled and the first response requested a
\* tool call, and nothing is called after the second, whatever it returns.
AtMostTwoCalls ==
    /\ Len(req.calls) <= 2
    /\ Len(req.calls) = 2 => cfg.agent_mode /\ req.first_tool_calls
    /\ req.pc = "call2" => cfg.agent_mode /\ req.first_tool_calls

\* The second call has been made and the request went on to its end.
AtMostTwoCallsWitness ==
    /\ Len(req.calls) = 2
    /\ req.pc = "done"
    /\ req.reply = "ai_response"

\* C13: the context holds the min(max_turns, n) most recent of the n
\* Conversation rows, oldest first, each as a user entry with user_message
\* followed by an assistant entry with ai_response; it is empty for
\* max_turns = 0 and for an empty history.
ContextOrdering ==
    req.pc = "context"
        => LET n == Len(turns)
               m == Min(cfg.context_messages, n)
           IN  /\ Len(req.context) = 2 * m
               /\ \A k \in 1 .. m :
                     /\ req.context[2 * k - 1] =
                            [role |-> "user", content |-> turns[n - m + k].user_message]
                     /\ req.context[2 * k] =
                            [role |-> "assistant", content |-> turns[n - m + k].ai_response]

\* Turns T1, T2, T3 with different texts and max_turns = 2.
ContextOrderingWitness ==
    /\ req.pc = "context"
    /\ Len(turns) = 3
    /\ cfg.context_messages = 2
    /\ turns[2].user_message # turns[3].user_message
    /\ turns[2].ai_response # turns[3].ai_response
    /\ Len(req.context) = 4

\* C14: every provider fault reaches the handler normalised: a rate-limit
\* fault as Overloaded, another provider-side or malformed-request fault as
\* ProviderUnavailable, any other fault as the unexpected (internal) error;
\* a rate-limit fault is never reported as ProviderUnavailable.  (The
\* authentication and permission faults are the subject of C15.)
FaultsNormalised ==
    (req.pc = "done" /\ req.fault # "none")
        => /\ req.error \in {"Overloaded", "ProviderUnavailable", "Unexpected"}
           /\ req.reply = req.error
           /\ req.fault = "RateLimitError" => req.error = "Overloaded"
           /\ req.fault \in {"BadRequestError", "APITimeoutError", "InternalServerError"}
                => req.error = "ProviderUnavailable"
           /\ req.fault = "RuntimeError" => req.error = "Unexpected"

\* The follow-up call was rejected by the provider's rate limit.
FaultsNormalisedWitness ==
    /\ req.pc = "done"
    /\ req.fault = "RateLimitError"
    /\ Len(req.calls) = 2
    /\ req.error = "Overloaded"

\* C15: an authentication or permission fault of the provider is classified
\* as ConfigurationError, not as ProviderUnavailable or Overloaded.
AuthIsConfigurationError ==
    (req.pc = "done" /\ req.fault \in {"AuthenticationError", "PermissionDeniedError"})
        => req.error = "ConfigurationError"

\* C16: a response without choices or with empty content makes the request
\* fail as ProviderUnavailable, not as the internal error.
EmptyIsProviderUnavailable ==
    (req.pc = "done" /\ req.stage = "empty")
        => req.error = "ProviderUnavailable"

\* C17: on every failure path the text sent to the user is one of the fixed
\* user-safe messages and carries no internal diagnostic text.
UserSafeReplies ==
    (req.pc = "done" /\ req.error # "none")
        => req.reply \notin DiagnosticErrors

\* C18: credit and debit with amount <= 0 raise the invalid-amount error
\* and leave balance and log unchanged; a debit with amount <= 0 never
\* returns False.
InvalidAmountRejected ==
    (last.op \in {"credit", "debit"} /\ last.amount <= 0)
        => /\ last.ret = "ValueError"
           /\ balance = last.pre.balance
           /\ txs = last.pre.txs

\* A debit of a negative amount was requested from an account with a balance.
InvalidAmountRejectedWitness ==
    /\ last.op = "debit"
    /\ last.amount < 0
    /\ last.pre.balance > 0
    /\ last.ret = "ValueError"

IsPrefix(a, b) == Len(a) <= Len(b) /\ SubSeq(b, 1, Len(a)) = a

\* C19: the transaction log is append-only: every step keeps the existing
\* rows as they are and adds at most one row at the end, and a row is added
\* only by a step of ensure_initial_bonus, credit or debit.
AppendOnly ==
    [][/\ IsPrefix(txs, txs')
       /\ Len(txs') <= Len(txs) + 1
       /\ txs' # txs => /\ nCalls' = nCalls + 1
                         /\ last'.op \in {"ensure_initial_bonus", "credit", "debit"}]_vars

\* Three rows have been recorded, by the bonus, a credit and a debit.
AppendOnlyWitness ==
    /\ Len(txs) = 3
    /\ txs[1].reason = "welcome_bonus"
    /\ txs[2].amount > 0
    /\ txs[3].amount < 0

\* C20: a ledger mutation is atomic with respect to failure: a session that
\* raised (rolled back) leaves the committed state untouched, and every
\* change of the committed state is the commit of one session that makes
\* visible both that session's balance change and all the Transaction rows
\* that account for it.
AtomicLedgerCommit ==
    [][/\ \A s \in Sessions :
             (sess[s].pc = "loaded" /\ sess'[s].pc = "rolledback")
                 => dbBalance' = dbBalance /\ dbTxs' = dbTxs
       /\ (dbBalance' # dbBalance \/ dbTxs' # dbTxs)
             => \E s \in Sessions :
                   /\ sess[s].pc = "loaded"
                   /\ sess'[s].pc = "committed"
                   /\ dbTxs' = dbTxs \o sess[s].pending
                   /\ SumAmounts(sess[s].pending) = sess[s].balance - sess[s].loaded
                   /\ sess[s].balance # sess[s].loaded => dbBalance' = sess[s].balance
                   /\ sess[s].balance = sess[s].loaded => dbBalance' = dbBalance]_vars

\* One session raised after its debit, another committed its debit.
AtomicLedgerCommitWitness ==
    \E s, t \in Sessions :
        /\ sess[s].pc = "rolledback"
        /\ sess[s].pending # <<>>
        /\ sess[t].pc = "committed"
        /\ sess[t].pending # <<>>
        /\ sess[t].balance = sess[t].loaded - 1

(***************************************************************************)
(* Command properties (SpecCommands).                                      *)
(***************************************************************************)

\* C21: an /add command from a caller outside settings.admin_ids changes no
\* account: every balance and every Transaction log is as it was before the
\* command.
AdminGate ==
    (cmd.op = "add" /\ cmd.caller \notin admin_ids) => accounts = cmd.pre

\* A refused /add of a positive amount, while some other id is allow-listed
\* and the target already has an account.
AdminGateWitness ==
    /\ cmd.op = "add"
    /\ cmd.caller \notin admin_ids
    /\ admin_ids # {}
    /\ cmd.amount > 0
    /\ cmd.pre[cmd.target].exists
    /\ cmd.reply = "denied"

\* C22: an /add of amount a > 0 from an allow-listed caller raises the
\* target's balance by exactly a and appends exactly one (+a, admin_credit)
\* row; a target without an account is created and given the welcome bonus
\* first, so that it ends at 100 + a; no other account changes.
AdminCredit ==
    (cmd.op = "add" /\ cmd.caller \in admin_ids /\ cmd.amount > 0) =>
        LET pre == cmd.pre[cmd.target]
            post == accounts[cmd.target]
        IN  /\ post.exists
            /\ pre.exists =>
                  /\ post.balance = pre.balance + cmd.amount
                  /\ post.txs = Append(pre.txs,
                                       Transaction(cmd.amount, "admin_credit"))
            /\ ~pre.exists =>
                  /\ post.balance = WelcomeBonus + cmd.amount
                  /\ post.txs = <<Transaction(WelcomeBonus, "welcome_bonus"),
                                  Transaction(cmd.amount, "admin_credit")>>
            /\ \A u \in UserIds \ {cmd.target} : accounts[u] = cmd.pre[u]

\* An allow-listed caller credits a target that had no account.
AdminCreditWitness ==
    /\ cmd.op = "add"
    /\ cmd.caller \in admin_ids
    /\ cmd.amount > 0
    /\ cmd.caller # cmd.target
    /\ ~cmd.pre[cmd.target].exists
    /\ accounts[cmd.target].balance = WelcomeBonus + cmd.amount

\* C23: after /start from a user without an account, the account exists
\* with balance 100 and exactly one welcome_bonus transaction.
StartGrantsBonus ==
    (cmd.op = "start" /\ cmd.caller # 0 /\ ~cmd.pre[cmd.caller].exists) =>
        /\ accounts[cmd.caller].exists
        /\ accounts[cmd.caller].balance = WelcomeBonus
        /\ CountReason(accounts[cmd.caller].txs, "welcome_bonus") = 1

(***************************************************************************)
(* count_tokens properties (SpecTokens).                                   *)
(***************************************************************************)

\* C30, as stated: count_tokens returns a non-negative integer, and for a
\* model whose tokenizer is unknown it returns len(text) // 4.
CountTokensEstimate ==
    (tok.cur.called /\ ~tok.cur.raised) =>
        /\ tok.cur.value >= 0
        /\ ~tok.cur.known => tok.cur.value = tok.cur.len \div 4

\* C30, amended: whenever count_tokens returns, the result is a non-negative
\* integer and the same for the same (text, model) under the same tokenizer
\* library; a model unknown to tiktoken is counted with cl100k_base, and
\* len(text) // 4 is returned only when the known model's encoding raises;
\* the call raises only when cl100k_base cannot be loaded for an unknown
\* model.
CountTokensContract ==
    tok.cur.called =>
        /\ tok.cur.raised <=> (~tok.cur.known /\ tok.base_fails)
        /\ ~tok.cur.raised => tok.cur.value >= 0
        /\ (~tok.cur.known /\ ~tok.base_fails)
              => tok.cur.value = tok.encoded_len[tok.cur.len]
        /\ (tok.cur.known /\ ~tok.model_fails)
              => tok.cur.value = tok.encoded_len[tok.cur.len]
        /\ (tok.cur.known /\ tok.model_fails)
              => tok.cur.value = tok.cur.len \div 4
        /\ (tok.prev.called /\ tok.prev.len = tok.cur.len
                            /\ tok.prev.known = tok.cur.known)
              => (tok.prev.value = tok.cur.value
                    /\ tok.prev.raised = tok.cur.raised)

\* The same short text counted twice for an unknown model: the count is
\* the tokenizer's, not the length estimate.
CountTokensContractWitness ==
    /\ tok.cur.called
    /\ tok.prev.called
    /\ ~tok.cur.known
    /\ ~tok.prev.known
    /\ tok.prev.len = tok.cur.len
    /\ ~tok.cur.raised
    /\ tok.cur.value # tok.cur.len \div 4

(***************************************************************************)
(* Request life cycle properties (SpecReq).                                *)
(***************************************************************************)

\* C24: a request goes Idle -> Debited -> Responded -> Persisted -> Done: no
\* provider call is issued before the request's debit, the Conversation row
\* is persisted only after a successful completion, the response is
\* delivered only after the row is persisted, and an idle handler has
\* failed at nothing.
RequestOrder ==
    /\ (req.calls # <<>> /\ req.preBalance >= 1) => Debited
    /\ (req.pc # "idle" /\ Len(turns) > req.preTurns)
          => req.ai_response # "none"
    /\ req.reply = "ai_response" => Len(turns) = req.preTurns + 1
    /\ req.pc = "idle" => req.error = "none"

\* C25: a request of a funded account whose provider call timed out, or
\* whose task was cancelled while the call was outstanding, ends with its
\* debit refunded and the balance back where it was.
ReconciledAfterTimeout ==
    (/\ req.pc \in {"done", "cancelled"}
     /\ req.preBalance >= 1
     /\ req.calls # <<>>
     /\ (req.fault = "APITimeoutError" \/ req.pc = "cancelled"))
        => /\ Debited
           /\ Refunded
           /\ balance = req.preBalance

\* C26: while a provider call of a funded account is outstanding, the
\* request's debit is already in the ledger: one (-1) row after the rows
\* found at the start, and the balance one lower.
DebitCommittedBeforeCall ==
    (req.pc \in {"call1", "call2"} /\ req.preBalance >= 1)
        => /\ Len(txs) = Len(req.preTxs) + 1
           /\ txs[Len(txs)].amount = -1
           /\ balance = req.preBalance - 1

\* C27: the message list of the first provider call is the system prompt,
\* the meta instructions, the context entries in their order and the new
\* user message, with the system prompt first and the user message last.
FirstCallMessages ==
    req.calls # <<>> =>
        LET m == req.calls[1].messages
        IN  /\ m = <<[role |-> "system", content |-> RolePromptContent],
                     [role |-> "system", content |-> MetaInstructionsContent]>>
                   \o req.context
                   \o <<[role |-> "user", content |-> nReq + 1]>>
            /\ m[1] = [role |-> "system", content |-> RolePromptContent]
            /\ m[Len(m)] = [role |-> "user", content |-> nReq + 1]

\* A first call whose context holds an earlier turn.
FirstCallMessagesWitness ==
    /\ req.calls # <<>>
    /\ Len(req.context) >= 2
    /\ Len(req.calls[1].messages) >= 5

TotalTokens ==
    req.ai_response # "none" =>
        req.total_tokens = IF req.final_usage # 0 THEN req.final_usage
                           ELSE req.tokens + req.response_tokens

\* A tool round whose first response had usage data and whose final
\* response had none.
TotalTokensWitness ==
    /\ req.ai_response # "none"
    /\ Len(req.calls) = 2
    /\ req.first_usage # 0
    /\ req.final_usage = 0
    /\ req.total_tokens = req.tokens + req.response_tokens
    /\ req.total_tokens # req.first_usage

(***************************************************************************)
(* The Redis session store (session_service.py): two update_session calls  *)
(* on the key of one telegram_id, each a get_session followed by a         *)
(* set_session, with the expiry of the key as a step of Redis.  A session  *)
(* mapping is held as the set of its keys.                                 *)
(***************************************************************************)
Keys == 1 .. MaxKeys

\* get_session: the stored mapping, or {} when the key is absent
get_session(st) == IF st.present THEN st.data ELSE {}

InitStore ==
    /\ LedgerIdle
    /\ DbIdle
    /\ ReqIdle
    /\ CmdIdle
    /\ TokIdle
    /\ lang = NoDetection
    /\ \E data \in SUBSET Keys, present \in BOOLEAN :
          /\ present \/ data = {}
          /\ store = [data |-> data, present |-> present, expired |-> FALSE,
                      upd |-> [p \in Updaters |-> NoUpdate]]

StoreFrame == UNCHANGED <<ledgerVars, dbVars, cfg, userExists, req, turns,
                          corrections, nReq, accounts, admin_ids, cmd, tok, lang>>

\* session = await self.get_session(telegram_id); session.update(updates)
UpdateGet(p) ==
    /\ store.upd[p].pc = "idle"
    /\ \E updates \in (SUBSET Keys) \ {{}} :
          store' = [store EXCEPT !.upd[p] =
                       [pc |-> "set", updates |-> updates,
                        session |-> get_session(store) \cup updates]]
    /\ StoreFrame

\* await self.set_session(telegram_id, session): SET with ex=ttl_seconds
UpdateSet(p) ==
    /\ store.upd[p].pc = "set"
    /\ store' = [store EXCEPT !.data = store.upd[p].session,
                              !.present = TRUE,
                              !.upd[p].pc = "done"]
    /\ StoreFrame

\* the TTL of the key runs out
Expire ==
    /\ store.present
    /\ store' = [store EXCEPT !.data = {}, !.present = FALSE, !.expired = TRUE]
    /\ StoreFrame

NextStore ==
    \/ \E p \in Updaters : UpdateGet(p)
    \/ \E p \in Updaters : UpdateSet(p)
    \/ Expire

SpecStore == InitStore /\ [][NextStore]_vars

(***************************************************************************)
(* Language detection properties (SpecLang).                               *)
(***************************************************************************)

\* C31: the detected language depends on the text alone, and the checks
\* apply in one order: a Cyrillic character gives ru; else a CJK character
\* zh; else an Arabic character ar; else a Spanish diacritic es; else a
\* French diacritic fr; else a German character de; else a text of Latin
\* characters only en; else none.
LanguagePriority ==
    lang.by # "none" =>
        LET t == lang.text
            cyr == AnyChar(t, Cyrillic)
            cjk == AnyChar(t, Chinese)
            ara == AnyChar(t, Arabic)
            spa == AnyLower(t, SpanishChars)
            fre == AnyLower(t, FrenchChars)
            ger == AnyLower(t, GermanChars)
            script == cyr \/ cjk \/ ara
        IN  /\ cyr => lang.result = "ru"
            /\ (~cyr /\ cjk) => lang.result = "zh"
            /\ (~cyr /\ ~cjk /\ ara) => lang.result = "ar"
            /\ (~script /\ spa) => lang.result = "es"
            /\ (~script /\ ~spa /\ fre) => lang.result = "fr"
            /\ (~script /\ ~spa /\ ~fre /\ ger) => lang.result = "de"
            /\ (~script /\ ~spa /\ ~fre /\ ~ger /\ AllChars(t, Latin1))
                  => lang.result = "en"
            /\ (~script /\ ~spa /\ ~fre /\ ~ger /\ ~AllChars(t, Latin1))
                  => lang.result = "none"
            /\ lang.prev # "uncalled" => lang.prev = lang.result

\* A text with a character of both the Spanish and the French set, and a
\* German one, detected twice: Spanish wins.
LanguagePriorityWitness ==
    /\ lang.by = "tool"
    /\ lang.prev # "uncalled"
    /\ AnyChar(lang.text, {"e_acute"})
    /\ AnyChar(lang.text, {"eszett"})
    /\ lang.result = "es"

(***************************************************************************)
(* Further ledger properties (SpecLedger).                                 *)
(***************************************************************************)

\* C32: a debit of amount > 0 from a balance of at least amount returns
\* True, lowers the balance by exactly amount and appends exactly one row
\* (-amount, reason); a credit of amount > 0 raises the balance by exactly
\* amount and appends exactly one row (+amount, reason).
ExactEffect ==
    /\ (last.op = "debit" /\ last.amount > 0
                          /\ last.pre.balance >= last.amount)
          => /\ last.ret = "True"
             /\ balance = last.pre.balance - last.amount
             /\ txs = Append(last.pre.txs,
                             Transaction(0 - last.amount, last.reason))
    /\ (last.op = "credit" /\ last.amount > 0)
          => /\ last.ret = "None"
             /\ balance = last.pre.balance + last.amount
             /\ txs = Append(last.pre.txs,
                             Transaction(last.amount, last.reason))

\* A successful debit of 2 from an account that already has rows.
ExactEffectWitness ==
    /\ last.op = "debit"
    /\ last.ret = "True"
    /\ last.amount = 2
    /\ Len(last.pre.txs) >= 1
    /\ balance = last.pre.balance - 2

\* C33: ensure_initial_bonus on an account that has a Transaction of any
\* reason changes neither the balance nor the log, so a welcome_bonus row
\* is only ever the first row of an account.
BonusOnlyFirst ==
    /\ (last.op = "ensure_initial_bonus" /\ last.pre.txs # <<>>)
          => /\ balance = last.pre.balance
             /\ txs = last.pre.txs
    /\ \A i \in 1 .. Len(txs) : txs[i].reason = "welcome_bonus" => i = 1

\* ensure_initial_bonus called on an account whose first row is an
\* admin_credit.
BonusOnlyFirstWitness ==
    /\ last.op = "ensure_initial_bonus"
    /\ last.pre.txs # <<>>
    /\ txs[1].reason = "admin_credit"
    /\ balance < WelcomeBonus

(***************************************************************************)
(* Further properties of generate_response (SpecReq).                      *)
(***************************************************************************)
CallBudgetsInRange ==
    \A i \in 1 .. Len(req.calls) :
        /\ req.calls[i].max_tokens >= MinResponseTokens
        /\ req.calls[i].max_tokens <= ai_max_response_tokens
        /\ req.tokens + req.calls[i].max_tokens + SafetyBuffer
              <= max_tokens_per_request

\* C34, as stated: every provider call gets max_tokens of at least 50 and at
\* most the desired maximum, with input_tokens + max_tokens + 100 within the
\* limit; an input of exactly the limit fails with the no-room error
\* without a provider call.
CallBudgetSafeAlways ==
    /\ CallBudgetsInRange
    /\ (GenerateEntered /\ req.tokens = max_tokens_per_request)
          => /\ req.calls = <<>>
             /\ req.error = "NoRoomForResponse"

\* C34, amended: the same bounds on every provider call; an input of
\* exactly the limit is rejected without a provider call, with the no-room
\* error when the user message and the role prompt are not blank and with
\* that argument's own validation error otherwise.
CallBudgetSafe ==
    /\ CallBudgetsInRange
    /\ (GenerateEntered /\ req.tokens = max_tokens_per_request)
          => /\ req.calls = <<>>
             /\ req.error =
                   IF req.text = "blank" THEN "EmptyUserMessage"
                   ELSE IF cfg.role_blank THEN "EmptyRolePrompt"
                   ELSE "NoRoomForResponse"

\* A provider call issued with the smallest budget that is let through.
CallBudgetSafeWitness ==
    /\ req.calls # <<>>
    /\ req.calls[1].max_tokens = MinResponseTokens
    /\ req.tokens + MinResponseTokens + SafetyBuffer = max_tokens_per_request

\* C35: with agent mode off a generate_response issues one provider call at
\* most, exactly one when it returns a response, and declares no tools,
\* whatever the response carries; with agent mode on the first call
\* declares the detect_language function alone and the follow-up call
\* declares none.
ToolDeclarations ==
    /\ ~cfg.agent_mode
          => /\ Len(req.calls) <= 1
             /\ \A i \in 1 .. Len(req.calls) : req.calls[i].tools = {}
             /\ req.ai_response # "none" => Len(req.calls) = 1
    /\ cfg.agent_mode
          => /\ Len(req.calls) >= 1 => req.calls[1].tools = {"detect_language"}
             /\ Len(req.calls) >= 2 => req.calls[2].tools = {}

\* Agent mode is off, the response carried tool calls, and the one call
\* made gave the response.
ToolDeclarationsWitness ==
    /\ ~cfg.agent_mode
    /\ req.first_tool_calls
    /\ req.ai_response # "none"
    /\ Len(req.calls) = 1

(***************************************************************************)
(* Frame properties of process_ai_message (SpecReq).                       *)
(***************************************************************************)

\* C36: a request that has no response from the provider (rejected in the
\* budget check, failed in the provider call, empty response, cancelled)
\* persists no Conversation row, and every entry of the context built for a
\* request comes from a persisted row, so a failed exchange is in no later
\* context.
FailedLeavesNoTurn ==
    /\ (req.pc # "idle" /\ req.ai_response = "none")
          => /\ Len(turns) = req.preTurns
             /\ \A i \in 1 .. Len(turns) : turns[i].user_message # nReq + 1
    /\ \A k \in 1 .. Len(req.context) :
          \E i \in 1 .. Len(turns) :
              req.context[k].content \in {turns[i].user_message,
                                          turns[i].ai_response}

\* A request of an account with an earlier turn failed in the provider
\* call and has ended.
FailedLeavesNoTurnWitness ==
    /\ req.pc = "done"
    /\ req.fault # "none"
    /\ req.calls # <<>>
    /\ req.preTurns >= 1
    /\ Len(turns) = req.preTurns

\* C37: a text that matches a predefined-response keyword is answered with
\* the predefined reply and the request ends: the users row is neither
\* created nor read, the ledger is untouched, no provider call is issued and
\* no Conversation or CorrectionHistory row is persisted.
PredefinedIsLocal ==
    req.text = "predefined" =>
        /\ req.pc = "done"
        /\ req.reply = "predefined"
        /\ req.calls = <<>>
        /\ userExists = req.preUserExists
        /\ balance = req.preBalance
        /\ txs = req.preTxs
        /\ Len(turns) = req.preTurns
        /\ corrections = req.preCorrections

\* A predefined query from a sender that has no users row.
PredefinedIsLocalWitness ==
    /\ req.text = "predefined"
    /\ req.reply = "predefined"
    /\ ~userExists
    /\ req.pc = "done"

(***************************************************************************)
(* Session store properties (SpecStore).                                   *)
(***************************************************************************)

\* C38: once two update_session calls with disjoint keys on the same
\* telegram_id have both completed, and the key has not expired, get_session
\* returns a mapping that holds the keys of both updates.
BothUpdatesKept ==
    (/\ \A p \in Updaters : store.upd[p].pc = "done"
     /\ store.upd[1].updates \cap store.upd[2].updates = {}
     /\ ~store.expired)
        => (store.upd[1].updates \cup store.upd[2].updates)
              \subseteq get_session(store)
====
